---- MODULE Spec2Model ----
(***************************************************************************)
(* Model of the Pub/Sub API client (PubSubApiClient): the per-topic stream *)
(* tracking map, the event emitters handed to the caller, the asynchronous *)
(* "data" handlers of the streams and the transport callbacks.             *)
(***************************************************************************)
EXTENDS Integers, Sequences, FiniteSets, TLC

\* ------------------------------------------------------------------ bounds
\* Spec: clients created
MaxSessions == 1
\* SpecFlow: server messages
FlowMessages == 2
\* SpecDecode: server messages, and handler invocations in flight
DecodeMessages == 2
DecodeInFlight == 2
\* SpecBatch: server messages
BatchMessages == 2
\* SpecCodec: length of the buffers handed to decodeReplayId
MaxBufferLen == 9
\* SpecBitmap: hex digits of a top-level bitmap
MaxDigits == 2
\* SpecParse: nesting depth of the attributes of a payload
MaxDepth == 2
\* SpecSchema: server messages
SchemaMessages == 2

\* --------------------------------------------------------------- constants
MAX_EVENT_BATCH_SIZE == 100

Topics == {"t1", "t2"}
NoClient == 0
NoStream == 0

\* numRequested arguments of subscribe(): null/undefined, a number or a
\* string; `int` is Number.isInteger and `safe` Number.isSafeInteger of it
NumNull == [type |-> "null", val |-> 0, int |-> FALSE, safe |-> FALSE]
Num(n) == [type |-> "number", val |-> n, int |-> TRUE, safe |-> TRUE]
\* 150.5 (val is its integer part)
NumFraction == [type |-> "number", val |-> 150, int |-> FALSE, safe |-> FALSE]
\* 2^53, an integer that is not a safe integer (val is the largest number of
\* the model, which it exceeds)
NumUnsafe == [type |-> "number", val |-> 2147483647, int |-> TRUE,
              safe |-> FALSE]
NumString == [type |-> "string", val |-> 0, int |-> FALSE, safe |-> FALSE]
\* numRequested arguments of requestAdditionalEvents()
AdditionalInputs == {1, 2}

\* positions of the events of an n-event message that fail to parse
BadSets(n) == {{}, {1}, {n}, {1, n}}

\* schema ids of the events
SchemaIds == {"a", "b"}

\* signals of an emitter; "parseError" is the "error" signal that carries an
\* EventParseError, "error" the one that carries a transport error
EventNames == {"data", "error", "parseError", "keepalive", "end", "lastevent"}

VARIABLES
    client,         \* #client: 0 (null) or the id of the gRPC client held
    sessions,       \* gRPC clients created so far
    closed,         \* close() calls: [session, ended] (streams ended before)
    subscriptions,  \* #subscriptions: topic name -> stream id (0: no entry)
    streams,        \* streams opened with #client.subscribe()
    emitters,       \* PubSubEventEmitter objects returned by #subscribe
    handlers,       \* invocations of the async "data" handler in flight
    messages,       \* server messages delivered so far
    manual,         \* requestAdditionalEvents calls made by the caller
    rejections,     \* rejected promises of requestAdditionalEvents nobody awaits
    result,         \* outcome of the last API call
    schemaCache,    \* #schemaChache: the ids of the schemas it holds
    getSchemaCalls, \* #client.getSchema calls made so far, per schema id
    order           \* the events handled after a schema lookup, in order

vars == <<client, sessions, closed, subscriptions, streams, emitters,
          handlers, messages, manual, rejections, result, schemaCache,
          getSchemaCalls, order>>

\* the state of the schema lookups
schemaVars == <<schemaCache, getSchemaCalls, order>>

\* ------------------------------------------------------- replay id codec
\* a replay id is a number of up to 64 bits, held as its four 16-bit limbs,
\* most significant first; the first limb of a number below 2^53 is below 32
Limb == 65536
Wide(n) == <<0, 0, n \div Limb, n % Limb>>

\* encodeReplayId that writes the least significant byte first
encodeReplayId_littleEndian(replayId) ==
    [i \in 1..8 |->
        LET limb == replayId[5 - ((i + 1) \div 2)]
        IN  IF i % 2 = 1 THEN limb % 256 ELSE limb \div 256]

\* Buffer.allocUnsafe(8) filled by writeBigUInt64BE(BigInt(replayId), 0):
\* 8 bytes, most significant first
encodeReplayId(replayId) ==
    [i \in 1..8 |->
        LET limb == replayId[(i + 1) \div 2]
        IN  IF i % 2 = 1 THEN limb \div 256 ELSE limb % 256]

\* buf.readBigUInt64BE(): the unsigned number in the bytes 1..8 of buf,
\* most significant first
readBigUInt64BE(buf) == [k \in 1..4 |-> buf[2 * k - 1] * 256 + buf[2 * k]]

\* the bits of the first limb beyond the 53 bits a Number holds exactly
ExcessBits(a) == IF a < 32 THEN 0
                 ELSE CHOOSE k \in 1..11 : 2^(k + 4) <= a /\ a < 2^(k + 5)

\* Number(bigint): exact below 2^53, else rounded to the nearest number with
\* 53 significant bits, ties to even (2^64 has the first limb 65536)
ToNumber(v) ==
    LET k == ExcessBits(v[1])
        r == v[4] % 2^k
        up == r > 2^(k - 1) \/ (r = 2^(k - 1) /\ (v[4] \div 2^k) % 2 = 1)
        d == v[4] - r + (IF up THEN 2^k ELSE 0)
        c == v[3] + d \div Limb
        b == v[2] + c \div Limb
    IN  IF k = 0 THEN v
        ELSE <<v[1] + b \div Limb, b % Limb, c % Limb, d % Limb>>

\* Number(encodedReplayId.readBigUInt64BE()): reads at offset 0 and throws
\* when the buffer has fewer than 8 bytes
decodeReplayId(encodedReplayId) ==
    IF Len(encodedReplayId) < 8
    THEN [error |-> "ERR_BUFFER_OUT_OF_BOUNDS", value |-> <<>>]
    ELSE [error |-> "none",
          value |-> ToNumber(readBigUInt64BE(encodedReplayId))]

\* ----------------------------------------------------------- event parser
\* a string is the sequence of its characters
RECURSIVE replaceAll(_, _, _)
\* str.replace(/ch/g, by)
replaceAll(str, ch, by) ==
    IF str = <<>> THEN <<>>
    ELSE (IF Head(str) = ch THEN by ELSE <<Head(str)>>)
         \o replaceAll(Tail(str), ch, by)

\* hexToBin(hex): drops the first two characters, then replaces the digits
\* 0-9 and A-F, one after the other, by their four bits
hexToBin(hex) ==
    LET b0 == replaceAll(SubSeq(hex, 3, Len(hex)), "0", <<"0", "0", "0", "0">>)
        b1 == replaceAll(b0, "1", <<"0", "0", "0", "1">>)
        b2 == replaceAll(b1, "2", <<"0", "0", "1", "0">>)
        b3 == replaceAll(b2, "3", <<"0", "0", "1", "1">>)
        b4 == replaceAll(b3, "4", <<"0", "1", "0", "0">>)
        b5 == replaceAll(b4, "5", <<"0", "1", "0", "1">>)
        b6 == replaceAll(b5, "6", <<"0", "1", "1", "0">>)
        b7 == replaceAll(b6, "7", <<"0", "1", "1", "1">>)
        b8 == replaceAll(b7, "8", <<"1", "0", "0", "0">>)
        b9 == replaceAll(b8, "9", <<"1", "0", "0", "1">>)
        bA == replaceAll(b9, "A", <<"1", "0", "1", "0">>)
        bB == replaceAll(bA, "B", <<"1", "0", "1", "1">>)
        bC == replaceAll(bB, "C", <<"1", "1", "0", "0">>)
        bD == replaceAll(bC, "D", <<"1", "1", "0", "1">>)
        bE == replaceAll(bD, "E", <<"1", "1", "1", "0">>)
    IN  replaceAll(bE, "F", <<"1", "1", "1", "1">>)

\* str.split('').reverse().join('')
reverse(str) == [i \in 1..Len(str) |-> str[Len(str) + 1 - i]]

RECURSIVE namesFrom(_, _, _)
\* the loop of getFieldNamesFromBitmap from index i (counted from 1) on
namesFrom(fields, binValue, i) ==
    IF i > Len(binValue) \/ i > Len(fields) THEN <<>>
    ELSE (IF binValue[i] = "1" THEN <<fields[i].name>> ELSE <<>>)
         \o namesFrom(fields, binValue, i + 1)

\* getFieldNamesFromBitmap(fields, fieldBitmapAsHex)
getFieldNamesFromBitmap(fields, fieldBitmapAsHex) ==
    namesFrom(fields, reverse(hexToBin(fieldBitmapAsHex)), 1)

\* getChildFields(parentField): the fields of the record types among the
\* types of the parent field
getChildFields(parentField) == parentField.children

RECURSIVE split(_, _)
\* str.split(sep) for a separator of one character
split(str, sep) ==
    IF \A i \in DOMAIN str : str[i] # sep THEN <<str>>
    ELSE LET i == CHOOSE k \in DOMAIN str :
                      str[k] = sep /\ \A q \in 1..(k - 1) : str[q] # sep
         IN  <<SubSeq(str, 1, i - 1)>>
             \o split(SubSeq(str, i + 1, Len(str)), sep)

DecimalDigits == <<"0", "1", "2", "3", "4", "5", "6", "7", "8", "9">>
NaN == -1

RECURSIVE parseDigits(_, _)
\* the number of the leading decimal digits of str that follow the value acc
parseDigits(str, acc) ==
    IF str = <<>> \/ \A d \in DOMAIN DecimalDigits : DecimalDigits[d] # Head(str)
    THEN acc
    ELSE parseDigits(Tail(str),
             10 * acc + (CHOOSE d \in DOMAIN DecimalDigits :
                             DecimalDigits[d] = Head(str)) - 1)

\* parseInt(str, 10) of a string without sign or blanks
parseInt(str) ==
    IF str = <<>> \/ \A d \in DOMAIN DecimalDigits : DecimalDigits[d] # Head(str)
    THEN NaN
    ELSE parseDigits(str, 0)

RECURSIVE compoundNames(_, _, _)
\* the forEach loop of parseFieldBitmaps over the entries that remain, with
\* the names found so far; a missing parent field makes getChildFields throw
compoundNames(allFields, remaining, fieldNames) ==
    IF remaining = <<>> THEN [error |-> "none", names |-> fieldNames]
    ELSE LET bitmapMapStrings == split(Head(remaining), "-")
             index == parseInt(bitmapMapStrings[1])
         IN  IF Len(bitmapMapStrings) < 2
             THEN compoundNames(allFields, Tail(remaining), fieldNames)
             ELSE IF index + 1 \notin DOMAIN allFields
             THEN [error |-> "TypeError", names |-> <<>>]
             ELSE
                 LET parentField == allFields[index + 1]
                     childFieldNames ==
                         getFieldNamesFromBitmap(getChildFields(parentField),
                                                 bitmapMapStrings[2])
                 IN  compoundNames(allFields, Tail(remaining),
                         fieldNames \o
                         [k \in DOMAIN childFieldNames |->
                             parentField.name \o "." \o childFieldNames[k]])

\* parseFieldBitmaps(allFields, fieldBitmapsAsHex)
parseFieldBitmaps(allFields, fieldBitmapsAsHex) ==
    LET first == fieldBitmapsAsHex[1]
        last == fieldBitmapsAsHex[Len(fieldBitmapsAsHex)]
        fieldNames ==
            IF Len(first) >= 2 /\ first[1] = "0" /\ first[2] = "x"
            THEN getFieldNamesFromBitmap(allFields, first)
            ELSE <<>>
    IN  IF Len(fieldBitmapsAsHex) = 0 THEN [error |-> "none", names |-> <<>>]
        ELSE IF Len(fieldBitmapsAsHex) > 1 /\ \E i \in DOMAIN last : last[i] = "-"
        THEN compoundNames(allFields, fieldBitmapsAsHex, fieldNames)
        ELSE [error |-> "none", names |-> fieldNames]

\* a decoded value: a primitive, null, an object (its entries in key order)
\* or an array of strings (its items)
Prim(x) == [kind |-> "prim", prim |-> x, entries |-> <<>>, items |-> <<>>]
Null == [kind |-> "null", prim |-> "", entries |-> <<>>, items |-> <<>>]
Undefined == [kind |-> "undefined", prim |-> "", entries |-> <<>>,
              items |-> <<>>]
Obj(entries) == [kind |-> "obj", prim |-> "", entries |-> entries,
                 items |-> <<>>]
Array(items) == [kind |-> "array", prim |-> "", entries |-> <<>>,
                 items |-> items]
Entry(key, value) == [key |-> key, value |-> value]

\* object[key]
Get(object, key) ==
    IF \E i \in DOMAIN object.entries : object.entries[i].key = key
    THEN object.entries[CHOOSE i \in DOMAIN object.entries :
                           object.entries[i].key = key].value
    ELSE Undefined

\* object[key] = value, for a key the object has
Set(object, key, value) ==
    [object EXCEPT !.entries =
        [i \in DOMAIN @ |-> IF @[i].key = key THEN Entry(key, value) ELSE @[i]]]

RECURSIVE flattenSinglePropertyObjects_intoHeader(_)
\* flattenSinglePropertyObjects without the test of the key
flattenSinglePropertyObjects_intoHeader(theObject) ==
    [theObject EXCEPT
        !.entries = [i \in DOMAIN @ |->
            LET value == @[i].value
                subValue == IF value.kind = "obj" THEN value.entries[1].value
                            ELSE Prim(value.items[1])
            IN  IF /\ value.kind \in {"obj", "array"}
                   /\ Len(value.entries) + Len(value.items) = 1
                THEN Entry(@[i].key,
                           IF subValue.kind \in {"obj", "array"}
                           THEN flattenSinglePropertyObjects_intoHeader(subValue)
                           ELSE subValue)
                ELSE @[i]]]

RECURSIVE flattenSinglePropertyObjects(_)
\* flattenSinglePropertyObjects(theObject): the object as the calls leave it
flattenSinglePropertyObjects(theObject) ==
    [theObject EXCEPT
        !.entries = [i \in DOMAIN @ |->
            LET value == @[i].value
                subValue == IF value.kind = "obj" THEN value.entries[1].value
                            ELSE Prim(value.items[1])
            IN  IF /\ @[i].key # "ChangeEventHeader"
                   /\ value.kind \in {"obj", "array"}
                   /\ Len(value.entries) + Len(value.items) = 1
                THEN Entry(@[i].key,
                           IF subValue.kind \in {"obj", "array"}
                           THEN flattenSinglePropertyObjects(subValue)
                           ELSE subValue)
                ELSE @[i]]]

\* changeEventHeader[attribute] = parseFieldBitmaps(allFields,
\* changeEventHeader[attribute]) inside its try block; an attribute that is
\* no array makes parseFieldBitmaps throw
resolveHeaderAttribute(r, allFields, attribute) ==
    LET changeEventHeader == Get(r.payload, "ChangeEventHeader")
        bitmaps == Get(changeEventHeader, attribute)
        names == parseFieldBitmaps(allFields, bitmaps.items)
    IN  IF r.error # "none" THEN r
        ELSE IF bitmaps.kind # "array" \/ names.error # "none"
        THEN [r EXCEPT !.error = "EventParseError"]
        ELSE [r EXCEPT !.payload =
                 Set(@, "ChangeEventHeader",
                     Set(changeEventHeader, attribute, Array(names.names)))]

\* parseEvent(schema, event, logger); event.decoded is the value that
\* schema.type.fromBuffer returns for event.event.payload
parseEvent(schema, event) ==
    LET replayId == decodeReplayId(event.replayId)
        payload == event.decoded
        r0 == [error |-> "none", replayId |-> replayId.value,
               payload |-> payload]
        r1 == IF Get(payload, "ChangeEventHeader").kind = "obj"
              THEN resolveHeaderAttribute(
                       resolveHeaderAttribute(
                           resolveHeaderAttribute(r0, schema.fields,
                                                  "nulledFields"),
                           schema.fields, "diffFields"),
                       schema.fields, "changedFields")
              ELSE r0
    IN  IF ~event.event
        THEN [error |-> "EventParseError", replayId |-> <<>>,
              payload |-> Undefined]
        ELSE IF replayId.error # "none"
        THEN [error |-> replayId.error, replayId |-> <<>>,
              payload |-> Undefined]
        ELSE IF r1.error # "none"
        THEN [error |-> r1.error, replayId |-> <<>>, payload |-> Undefined]
        ELSE [r1 EXCEPT !.payload = flattenSinglePropertyObjects(@)]

\* ------------------------------------------------------ PubSubEventEmitter
\* new PubSubEventEmitter(topicName, numRequested); `infinite` and `stream`
\* are the isInfiniteEventRequest and subscription variables its handlers
\* close over
NewEmitter(topicName, numRequested, infinite, stream) ==
    [topicName |-> topicName,
     requestedEventCount |-> numRequested,
     receivedEventCount |-> 0,
     infinite |-> infinite,
     stream |-> stream,
     emitted |-> [n \in EventNames |-> 0],
     latestReplayId |-> <<>>,    \* payload of the last keepalive emission
     delivered |-> 0,            \* events of the messages handed to the handler
     deliveredBad |-> 0]         \* those of them that fail to parse

\* eventEmitter.emit(name, ...)
emit(em, name) == [em EXCEPT !.emitted[name] = @ + 1]

\* the received counter is incremented after each event of a message
countEvent(em) == [em EXCEPT !.receivedEventCount = @ + 1]

\* eventEmitter._resetEventCount(newRequestedEventCount)
resetEventCount(em, newCount) ==
    [em EXCEPT !.requestedEventCount = newCount, !.receivedEventCount = 0]

\* ------------------------------------------------------------------ world
\* the fields of the client and of the objects it reaches, as one value the
\* operations transform; `error` is the error the operation throws
World == [client |-> client, sessions |-> sessions, closed |-> closed,
          subscriptions |-> subscriptions, streams |-> streams,
          emitters |-> emitters, error |-> "none", rejections |-> rejections,
          schemaCache |-> schemaCache, getSchemaCalls |-> getSchemaCalls,
          order |-> order]

\* subscription.write(message); `origin` and `em` record who wrote it
write(w, s, topicName, numRequested, origin, em) ==
    [w EXCEPT !.streams[s].writes =
        Append(@, [topicName |-> topicName, numRequested |-> numRequested,
                   origin |-> origin, em |-> em])]

\* requestAdditionalEvents that resets the counters without looking for the
\* subscription of the topic first
requestAdditionalEvents_noCheck(w, e, numRequested, origin) ==
    LET topicName == w.emitters[e].topicName
        subscription == w.subscriptions[topicName]
        w1 == [w EXCEPT !.emitters[e] = resetEventCount(@, numRequested)]
    IN  IF subscription = NoStream
        THEN [w1 EXCEPT !.error = "no active subscription found"]
        ELSE write(w1, subscription, topicName, numRequested, origin, e)

\* requestAdditionalEvents that resets the counters and writes nothing
requestAdditionalEvents_noWrite(w, e, numRequested, origin) ==
    LET topicName == w.emitters[e].topicName
        subscription == w.subscriptions[topicName]
    IN  IF subscription = NoStream
        THEN [w EXCEPT !.error = "no active subscription found"]
        ELSE [w EXCEPT !.emitters[e] = resetEventCount(@, numRequested)]

\* requestAdditionalEvents(eventEmitter, numRequested)
requestAdditionalEvents(w, e, numRequested, origin) ==
    LET topicName == w.emitters[e].topicName
        subscription == w.subscriptions[topicName]
    IN  IF subscription = NoStream
        THEN [w EXCEPT !.error = "no active subscription found"]
        ELSE write([w EXCEPT !.emitters[e] = resetEventCount(@, numRequested)],
                   subscription, topicName, numRequested, origin, e)

\* this.#client.subscribe(): a new bidirectional stream of the held client
openStream(w) ==
    [w EXCEPT !.streams = Append(@, [session |-> w.client, writes |-> <<>>,
                                     endCalls |-> 0, ended |-> FALSE,
                                     failed |-> FALSE, failedFor |-> 0,
                                     listeners |-> <<>>])]

\* #subscribe without the check of the client connection
subscribe_noClientCheck(w, topicName, numRequested) ==
    LET isInfiniteEventRequest == numRequested.type = "null"
        n == IF isInfiniteEventRequest THEN MAX_EVENT_BATCH_SIZE
             ELSE numRequested.val
    IN  IF ~isInfiniteEventRequest /\ numRequested.type # "number"
        THEN [w EXCEPT !.error = "Expected a number type"]
        ELSE IF ~isInfiniteEventRequest /\ (~numRequested.safe \/ n < 1)
        THEN [w EXCEPT !.error = "Expected an integer greater than 1"]
        ELSE
            LET w1 == IF w.subscriptions[topicName] = NoStream
                      THEN [openStream(w) EXCEPT
                               !.subscriptions[topicName] = Len(w.streams) + 1]
                      ELSE w
                subscription == w1.subscriptions[topicName]
                e == Len(w.emitters) + 1
                w2 == write(w1, subscription, topicName, n, "subscribe", e)
            IN  [w2 EXCEPT
                    !.emitters = Append(@, NewEmitter(topicName, n,
                                     isInfiniteEventRequest, subscription)),
                    !.streams[subscription].listeners = Append(@, e)]

\* #subscribe that opens a stream without looking for an existing one
subscribe_alwaysOpens(w, topicName, numRequested) ==
    LET isInfiniteEventRequest == numRequested.type = "null"
        n == IF isInfiniteEventRequest THEN MAX_EVENT_BATCH_SIZE
             ELSE numRequested.val
    IN  IF ~isInfiniteEventRequest /\ numRequested.type # "number"
        THEN [w EXCEPT !.error = "Expected a number type"]
        ELSE IF ~isInfiniteEventRequest /\ (~numRequested.safe \/ n < 1)
        THEN [w EXCEPT !.error = "Expected an integer greater than 1"]
        ELSE IF w.client = NoClient
        THEN [w EXCEPT !.error = "client is not connected"]
        ELSE
            LET w1 == [openStream(w) EXCEPT
                          !.subscriptions[topicName] = Len(w.streams) + 1]
                subscription == w1.subscriptions[topicName]
                e == Len(w.emitters) + 1
                w2 == write(w1, subscription, topicName, n, "subscribe", e)
            IN  [w2 EXCEPT
                    !.emitters = Append(@, NewEmitter(topicName, n,
                                     isInfiniteEventRequest, subscription)),
                    !.streams[subscription].listeners = Append(@, e)]

\* #subscribe that asks for no more than the maximum batch size
subscribe_clampsToBatch(w, topicName, numRequested) ==
    LET isInfiniteEventRequest == numRequested.type = "null"
        n == IF isInfiniteEventRequest
                \/ numRequested.val > MAX_EVENT_BATCH_SIZE
             THEN MAX_EVENT_BATCH_SIZE
             ELSE numRequested.val
    IN  IF ~isInfiniteEventRequest /\ numRequested.type # "number"
        THEN [w EXCEPT !.error = "Expected a number type"]
        ELSE IF ~isInfiniteEventRequest /\ (~numRequested.safe \/ n < 1)
        THEN [w EXCEPT !.error = "Expected an integer greater than 1"]
        ELSE IF w.client = NoClient
        THEN [w EXCEPT !.error = "client is not connected"]
        ELSE
            LET w1 == IF w.subscriptions[topicName] = NoStream
                      THEN [openStream(w) EXCEPT
                               !.subscriptions[topicName] = Len(w.streams) + 1]
                      ELSE w
                subscription == w1.subscriptions[topicName]
                e == Len(w.emitters) + 1
                w2 == write(w1, subscription, topicName, n, "subscribe", e)
            IN  [w2 EXCEPT
                    !.emitters = Append(@, NewEmitter(topicName, n,
                                     isInfiniteEventRequest, subscription)),
                    !.streams[subscription].listeners = Append(@, e)]

\* #subscribe({topicName, numRequested})
subscribe(w, topicName, numRequested) ==
    LET isInfiniteEventRequest == numRequested.type = "null"
        n == IF isInfiniteEventRequest THEN MAX_EVENT_BATCH_SIZE
             ELSE numRequested.val
    IN  IF ~isInfiniteEventRequest /\ numRequested.type # "number"
        THEN [w EXCEPT !.error = "Expected a number type"]
        ELSE IF ~isInfiniteEventRequest /\ (~numRequested.safe \/ n < 1)
        THEN [w EXCEPT !.error = "Expected an integer greater than 1"]
        ELSE IF w.client = NoClient
        THEN [w EXCEPT !.error = "client is not connected"]
        ELSE
            LET w1 == IF w.subscriptions[topicName] = NoStream
                      THEN [openStream(w) EXCEPT
                               !.subscriptions[topicName] = Len(w.streams) + 1]
                      ELSE w
                subscription == w1.subscriptions[topicName]
                e == Len(w.emitters) + 1
                w2 == write(w1, subscription, topicName, n, "subscribe", e)
            IN  [w2 EXCEPT
                    !.emitters = Append(@, NewEmitter(topicName, n,
                                     isInfiniteEventRequest, subscription)),
                    !.streams[subscription].listeners = Append(@, e)]

\* this.#client.close() of disconnect(); the entry added to `closed` keeps
\* the streams on which end() had been called when the client was closed
close(w) ==
    [w EXCEPT !.closed = @ \cup
        {[session |-> w.client,
          ended |-> {s \in DOMAIN w.streams : w.streams[s].endCalls > 0}]}]

\* the loop of disconnect(): end() and delete every tracked subscription
endSubscriptions(w) ==
    LET tracked == {w.subscriptions[t] : t \in Topics} \ {NoStream}
    IN  [w EXCEPT
            !.streams = [s \in DOMAIN @ |->
                IF s \in tracked THEN [@[s] EXCEPT !.endCalls = @ + 1]
                ELSE @[s]],
            !.subscriptions = [t \in Topics |-> NoStream]]

\* disconnect that leaves the closed client in #client
disconnect_keepsClient(w) ==
    IF w.client # NoClient
    THEN close(endSubscriptions(w))
    ELSE w

\* disconnect that closes the client before it ends the subscriptions
disconnect_closesFirst(w) ==
    IF w.client # NoClient
    THEN [endSubscriptions(close(w)) EXCEPT !.client = NoClient]
    ELSE w

\* disconnect()
disconnect(w) ==
    IF w.client # NoClient
    THEN [close(endSubscriptions(w)) EXCEPT !.client = NoClient]
    ELSE w

\* #connectToPubSubApi(conMetadata): this.#client = new PubSubClient(...)
connectToPubSubApi(w) ==
    [w EXCEPT !.client = w.sessions + 1, !.sessions = @ + 1]

\* processEvent that counts only the events that parse
processEvent_countsParsedOnly(w, e, parsed) ==
    LET w1 == [w EXCEPT !.emitters[e] =
                   IF parsed THEN countEvent(emit(@, "data"))
                   ELSE emit(@, "parseError")]
        em == w1.emitters[e]
    IN  IF em.receivedEventCount = em.requestedEventCount
        THEN IF em.infinite
             THEN requestAdditionalEvents(w1, e, MAX_EVENT_BATCH_SIZE, "auto")
             ELSE [w1 EXCEPT !.emitters[e] = emit(@, "lastevent")]
        ELSE w1

\* processEvent that takes every event at or past the requested count for the
\* last requested one
processEvent_atLeast(w, e, parsed) ==
    LET w1 == [w EXCEPT !.emitters[e] =
                   countEvent(emit(@, IF parsed THEN "data" ELSE "parseError"))]
        em == w1.emitters[e]
    IN  IF em.receivedEventCount >= em.requestedEventCount
        THEN IF em.infinite
             THEN requestAdditionalEvents(w1, e, MAX_EVENT_BATCH_SIZE, "auto")
             ELSE [w1 EXCEPT !.emitters[e] = emit(@, "lastevent")]
        ELSE w1

\* processEvent that re-requests only at the first batch boundary
processEvent_firstBatchOnly(w, e, parsed) ==
    LET w1 == [w EXCEPT !.emitters[e] =
                   countEvent(emit(@, IF parsed THEN "data" ELSE "parseError"))]
        em == w1.emitters[e]
        requested == \E s \in DOMAIN w.streams :
                        \E j \in DOMAIN w.streams[s].writes :
                            /\ w.streams[s].writes[j].em = e
                            /\ w.streams[s].writes[j].origin = "auto"
    IN  IF em.receivedEventCount = em.requestedEventCount
        THEN IF em.infinite
             THEN IF requested THEN w1
                  ELSE requestAdditionalEvents(w1, e, MAX_EVENT_BATCH_SIZE,
                                               "auto")
             ELSE [w1 EXCEPT !.emitters[e] = emit(@, "lastevent")]
        ELSE w1

\* processEvent that re-requests at the last requested event in bounded mode too
processEvent_alwaysRequests(w, e, parsed) ==
    LET w1 == [w EXCEPT !.emitters[e] =
                   countEvent(emit(@, IF parsed THEN "data" ELSE "parseError"))]
        em == w1.emitters[e]
    IN  IF em.receivedEventCount = em.requestedEventCount
        THEN requestAdditionalEvents(w1, e, MAX_EVENT_BATCH_SIZE, "auto")
        ELSE w1

\* one iteration of the loop of the "data" handler, after the schema of the
\* event was awaited: parse and emit, then handle the last requested event
processEvent(w, e, parsed) ==
    LET w1 == [w EXCEPT !.emitters[e] =
                   countEvent(emit(@, IF parsed THEN "data" ELSE "parseError"))]
        em == w1.emitters[e]
    IN  IF em.receivedEventCount = em.requestedEventCount
        THEN IF em.infinite
             THEN requestAdditionalEvents(w1, e, MAX_EVENT_BATCH_SIZE, "auto")
             ELSE [w1 EXCEPT !.emitters[e] = emit(@, "lastevent")]
        ELSE w1

\* the "data" handler of emitter e up to its first await, for a message
\* [events, n, bad, latestReplayId]; h is the invocation it leaves in flight
startDataHandler(w, e, msg) ==
    IF msg.events = "list"
    THEN [w EXCEPT !.emitters[e].delivered = @ + msg.n,
                   !.emitters[e].deliveredBad = @ + Cardinality(msg.bad)]
    ELSE [w EXCEPT !.emitters[e] =
             [emit(@, "keepalive") EXCEPT
                 !.latestReplayId = decodeReplayId(msg.latestReplayId).value]]

RECURSIVE startDataHandlers(_, _, _)
\* the "data" listeners of a stream, called in registration order
startDataHandlers(w, listeners, msg) ==
    IF listeners = <<>> THEN w
    ELSE startDataHandlers(startDataHandler(w, Head(listeners), msg),
                           Tail(listeners), msg)

\* the "end" handler that emits "end" and keeps the entry of the topic
endHandler_keepsTopic(w, e) ==
    [w EXCEPT !.emitters[e] = emit(@, "end")]

\* the "end" handler that deletes the entry of the topic and emits nothing
endHandler_silent(w, e) ==
    [w EXCEPT !.subscriptions[w.emitters[e].topicName] = NoStream]

\* the "end" handler of emitter e
endHandler(w, e) ==
    [w EXCEPT !.subscriptions[w.emitters[e].topicName] = NoStream,
              !.emitters[e] = emit(@, "end")]

RECURSIVE endHandlers(_, _)
\* the "end" listeners of a stream, called in registration order
endHandlers(w, listeners) ==
    IF listeners = <<>> THEN w
    ELSE endHandlers(endHandler(w, Head(listeners)), Tail(listeners))

\* the "error" handler that treats the error as the end of the stream
errorHandler_untracks(w, e) ==
    [w EXCEPT !.subscriptions[w.emitters[e].topicName] = NoStream,
              !.emitters[e] = emit(@, "error")]

\* the "error" handler of emitter e
errorHandler(w, e) == [w EXCEPT !.emitters[e] = emit(@, "error")]

RECURSIVE errorHandlers(_, _)
\* the "error" listeners of a stream, called in registration order
errorHandlers(w, listeners) ==
    IF listeners = <<>> THEN w
    ELSE errorHandlers(errorHandler(w, Head(listeners)), Tail(listeners))

\* ----------------------------------------------------------- schema cache
\* this.#schemaChache.getFromId(schemaId): whether the cache holds the schema
getFromId(w, schemaId) == schemaId \in w.schemaCache

\* this.#schemaChache.set(schema)
set(w, schemaId) == [w EXCEPT !.schemaCache = @ \cup {schemaId}]

\* this.#client.getSchema({ schemaId }, callback) of
\* #fetchEventSchemaFromIdWithClient: one more call is in flight
fetchEventSchemaFromIdWithClient(w, schemaId) ==
    [w EXCEPT !.getSchemaCalls[schemaId] = @ + 1]

\* the rest of an iteration of the loop of the "data" handler for event h.i of
\* the invocation h, whose schema came from `via` ("cache", "resolved" or
\* "failed"): parse and emit, handle the last requested event; the promise of
\* a re-request that fails is rejected and nobody awaits it
handleEvent(w, h, via) ==
    LET parsed == via # "failed" /\ h.i \notin h.bad
        w1 == processEvent(w, h.em, parsed)
    IN  [w1 EXCEPT
            !.error = "none",
            !.rejections = @ + (IF w1.error # "none" THEN 1 ELSE 0),
            !.order = Append(@, [em |-> h.em, msg |-> h.msg, i |-> h.i,
                                 schemaId |-> h.schemaIds[h.i], via |-> via,
                                 signal |-> IF parsed THEN "data" ELSE "error"])]

RECURSIVE runHandler(_, _)
\* the loop of the "data" handler from event h.i on, as far as it runs without
\* waiting for the transport: the events whose schema is cached are handled
\* one after the other, and at the first event whose schema is not cached
\* getSchema is called and the invocation waits, at that event
runHandler(w, h) ==
    IF h.i > h.n THEN [w |-> w, at |-> 0]
    ELSE IF getFromId(w, h.schemaIds[h.i])
    THEN runHandler(handleEvent(w, h, "cache"), [h EXCEPT !.i = @ + 1])
    ELSE [w |-> fetchEventSchemaFromIdWithClient(w, h.schemaIds[h.i]),
          at |-> h.i]

\* #getEventSchemaFromId that stores the id of a schema that failed to load
getEventSchemaFromId_cachesFailure(w, schemaId, ok) == set(w, schemaId)

\* #getEventSchemaFromId after its await: the schema that was fetched is
\* stored, a failure is thrown on
getEventSchemaFromId(w, schemaId, ok) == IF ok THEN set(w, schemaId) ELSE w

\* ---------------------------------------------------------------- actions
\* server messages: `events` is absent or a list of n events, of which the
\* ones at the positions `bad` fail to parse
KeepaliveMessage(r) ==
    [events |-> "absent", n |-> 0, bad |-> {},
     latestReplayId |-> encodeReplayId(Wide(r))]
EventsMessage(n, bad, r) ==
    [events |-> "list", n |-> n, bad |-> bad,
     latestReplayId |-> encodeReplayId(Wide(r))]
MessagesOf(counts) ==
    {KeepaliveMessage(258), EventsMessage(0, {}, 258)}
    \cup UNION {{EventsMessage(n, b, 7) : b \in BadSets(n)} : n \in counts}

Apply(w) ==
    /\ client' = w.client
    /\ sessions' = w.sessions
    /\ closed' = w.closed
    /\ subscriptions' = w.subscriptions
    /\ streams' = w.streams
    /\ emitters' = w.emitters

Called(op, w) ==
    result' = [op |-> op, error |-> w.error,
               streak |-> IF op = "disconnect" /\ result.op = "disconnect"
                          THEN 2 ELSE 1]

Init ==
    /\ client = NoClient
    /\ sessions = 0
    /\ closed = {}
    /\ subscriptions = [t \in Topics |-> NoStream]
    /\ streams = <<>>
    /\ emitters = <<>>
    /\ handlers = {}
    /\ messages = 0
    /\ manual = 0
    /\ rejections = 0
    /\ schemaCache = {}
    /\ getSchemaCalls = [id \in SchemaIds |-> 0]
    /\ order = <<>>
    /\ result = [op |-> "new", error |-> "none", streak |-> 1]

connect ==
    /\ Apply(connectToPubSubApi(World))
    /\ Called("connect", World)
    /\ UNCHANGED <<handlers, messages, manual, rejections>>
    /\ UNCHANGED schemaVars

Connect(L) == sessions < L.sessions /\ connect

\* a call of subscribe(topicName, numRequested)
SubscribeCall(topicName, numRequested) ==
    LET w == subscribe(World, topicName, numRequested)
    IN  /\ Apply(w)
        /\ Called("subscribe", w)
        /\ UNCHANGED <<handlers, messages, manual, rejections>>
        /\ UNCHANGED schemaVars

Subscribe(L, topicName, numRequested) ==
    LET w == subscribe(World, topicName, numRequested)
    IN  /\ Len(w.emitters) <= L.emitters
        /\ Len(w.streams) <= L.streams
        /\ SubscribeCall(topicName, numRequested)

\* a call of requestAdditionalEvents(eventEmitter, numRequested) by the caller
RequestCall(e, numRequested) ==
    LET w == requestAdditionalEvents(World, e, numRequested, "manual")
    IN  /\ manual' = manual + 1
        /\ Apply(w)
        /\ Called("requestAdditionalEvents", w)
        /\ UNCHANGED <<handlers, messages, rejections>>
        /\ UNCHANGED schemaVars

RequestAdditionalEvents(L, e, numRequested) ==
    manual < L.manual /\ RequestCall(e, numRequested)

\* a call of disconnect()
Disconnect ==
    LET w == disconnect(World)
    IN  /\ Apply(w)
        /\ Called("disconnect", w)
        /\ UNCHANGED <<handlers, messages, manual, rejections>>
        /\ UNCHANGED schemaVars

\* the invocations of the "data" handler a message leaves in flight
Started(s, msg) ==
    IF msg.events = "list" /\ msg.n > 0
    THEN {[msg |-> messages + 1, em |-> streams[s].listeners[k],
           n |-> msg.n, bad |-> msg.bad, i |-> 1] :
              k \in DOMAIN streams[s].listeners}
    ELSE {}

\* the transport emits "data" on stream s: every registered handler runs up
\* to its first await
DataEvent(s, msg) ==
    /\ messages' = messages + 1
    /\ Apply(startDataHandlers(World, streams[s].listeners, msg))
    /\ handlers' = handlers \cup Started(s, msg)
    /\ UNCHANGED <<manual, rejections, result>>
    /\ UNCHANGED schemaVars

OnData(L, s, msg) ==
    /\ messages < L.messages
    /\ Cardinality(handlers) + Cardinality(Started(s, msg)) <= L.inflight
    /\ ~streams[s].ended
    /\ DataEvent(s, msg)

\* DataHandlerStep whose invocation ends at the first event that fails to parse
DataHandlerStep_abortsOnFailure(h) ==
    LET w == processEvent(World, h.em, h.i \notin h.bad)
    IN  /\ Apply([w EXCEPT !.error = "none"])
        /\ rejections' = rejections + (IF w.error # "none" THEN 1 ELSE 0)
        /\ handlers' = (handlers \ {h}) \cup
              IF h.i < h.n /\ h.i \notin h.bad
              THEN {[h EXCEPT !.i = @ + 1]} ELSE {}
        /\ UNCHANGED <<messages, manual, result>>
        /\ UNCHANGED schemaVars

\* an invocation of the "data" handler resumes and handles one event
DataHandlerStep(h) ==
    LET w == processEvent(World, h.em, h.i \notin h.bad)
    IN  /\ Apply([w EXCEPT !.error = "none"])
        /\ rejections' = rejections + (IF w.error # "none" THEN 1 ELSE 0)
        /\ handlers' = (handlers \ {h}) \cup
              IF h.i < h.n THEN {[h EXCEPT !.i = @ + 1]} ELSE {}
        /\ UNCHANGED <<messages, manual, result>>
        /\ UNCHANGED schemaVars

\* the transport emits "end" on stream s
OnEnd(s) ==
    /\ ~streams[s].ended
    /\ Apply([endHandlers(World, streams[s].listeners)
                 EXCEPT !.streams[s].ended = TRUE])
    /\ UNCHANGED <<handlers, messages, manual, rejections, result>>
    /\ UNCHANGED schemaVars

\* the transport emits "error" on stream s: the call failed; failedFor keeps
\* the number of listeners the stream had then
OnError(s) ==
    /\ ~streams[s].ended
    /\ ~streams[s].failed
    /\ Apply([errorHandlers(World, streams[s].listeners)
                 EXCEPT !.streams[s].failed = TRUE,
                        !.streams[s].failedFor = Len(streams[s].listeners)])
    /\ UNCHANGED <<handlers, messages, manual, rejections, result>>
    /\ UNCHANGED schemaVars

\* the transport emits "end" on a stream on which end() was called
OnEndAfterClose(s) == streams[s].endCalls > 0 /\ OnEnd(s)

\* a call of encodeReplayId(replayId)
EncodeCall ==
    /\ result.op = "input"
    /\ result' = [result EXCEPT !.op = "encodeReplayId",
                                !.buf = encodeReplayId(result.replayId)]
    /\ UNCHANGED <<client, sessions, closed, subscriptions, streams, emitters,
                   handlers, messages, manual, rejections>>
    /\ UNCHANGED schemaVars

\* the buffer a caller hands to decodeReplayId has len bytes: the first ones
\* of the encoded replay id, or all of them followed by more
Resize(len) ==
    /\ result.op = "encodeReplayId"
    /\ len # 8
    /\ result' = [result EXCEPT
           !.op = "buffer",
           !.buf = [i \in 1..len |-> IF i <= 8 THEN result.buf[i] ELSE 1]]
    /\ UNCHANGED <<client, sessions, closed, subscriptions, streams, emitters,
                   handlers, messages, manual, rejections>>
    /\ UNCHANGED schemaVars

\* the buffer a caller hands to decodeReplayId holds a number of 2^53 or more
Enlarge(byte) ==
    /\ result.op = "encodeReplayId"
    /\ result' = [result EXCEPT !.op = "buffer", !.buf[1] = byte]
    /\ UNCHANGED <<client, sessions, closed, subscriptions, streams, emitters,
                   handlers, messages, manual, rejections>>
    /\ UNCHANGED schemaVars

\* a call of decodeReplayId(encodedReplayId)
DecodeCall ==
    /\ result.op \in {"encodeReplayId", "buffer"}
    /\ result' = [result EXCEPT !.op = "decodeReplayId", !.from = result.op,
                                !.decoded = decodeReplayId(result.buf)]
    /\ UNCHANGED <<client, sessions, closed, subscriptions, streams, emitters,
                   handlers, messages, manual, rejections>>
    /\ UNCHANGED schemaVars

\* a call of parseFieldBitmaps(allFields, fieldBitmapsAsHex)
ParseFieldBitmapsCall ==
    /\ result.op = "input"
    /\ result' = [result EXCEPT
           !.op = "parseFieldBitmaps",
           !.out = parseFieldBitmaps(result.allFields, result.bitmaps)]
    /\ UNCHANGED <<client, sessions, closed, subscriptions, streams, emitters,
                   handlers, messages, manual, rejections>>
    /\ UNCHANGED schemaVars

\* a call of parseEvent(schema, event, logger)
ParseEventCall ==
    /\ result.op = "input"
    /\ result' = [result EXCEPT
           !.op = "parseEvent",
           !.out = parseEvent(result.schema, result.event)]
    /\ UNCHANGED <<client, sessions, closed, subscriptions, streams, emitters,
                   handlers, messages, manual, rejections>>
    /\ UNCHANGED schemaVars

\* the flattening step of parseEvent, flattenSinglePropertyObjects(payload),
\* applied to a decoded payload on its own
FlattenCall ==
    /\ result.op = "input"
    /\ result.event.event
    /\ result' = [result EXCEPT
           !.op = "flattenSinglePropertyObjects",
           !.out = [error |-> "none", replayId |-> <<>>,
                    payload |->
                        flattenSinglePropertyObjects(result.event.decoded)]]
    /\ UNCHANGED <<client, sessions, closed, subscriptions, streams, emitters,
                   handlers, messages, manual, rejections>>
    /\ UNCHANGED schemaVars

\* a server message of events with the ids of their schemas
SchemaMessage(schemaIds, bad) ==
    [events |-> "list", n |-> Len(schemaIds), bad |-> bad,
     latestReplayId |-> encodeReplayId(Wide(7)), schemaIds |-> schemaIds]

\* the invocations in flight after a run of the invocation h that stopped at
\* event `at`
Waiting(h, at) == IF at = 0 THEN {} ELSE {[h EXCEPT !.i = at]}

ApplySchema(w) ==
    /\ Apply(w)
    /\ rejections' = w.rejections
    /\ schemaCache' = w.schemaCache
    /\ getSchemaCalls' = w.getSchemaCalls
    /\ order' = w.order

\* the transport emits "data" on stream s, which has one listener, with a
\* message of events: the handler runs up to its first getSchema call
SchemaDataEvent(s, msg) ==
    LET h == [msg |-> messages + 1, em |-> streams[s].listeners[1],
              n |-> msg.n, bad |-> msg.bad, i |-> 1,
              schemaIds |-> msg.schemaIds]
        r == runHandler(startDataHandler(World, h.em, msg), h)
    IN  /\ messages' = messages + 1
        /\ ApplySchema(r.w)
        /\ handlers' = handlers \cup Waiting(h, r.at)
        /\ UNCHANGED <<manual, result>>

OnSchemaData(L, s, msg) ==
    /\ messages < L.messages
    /\ Cardinality(handlers) < L.inflight
    /\ ~streams[s].ended
    /\ Len(streams[s].listeners) = 1
    /\ SchemaDataEvent(s, msg)

\* the transport calls the callback of the getSchema call that the
\* invocation h waits for, with the schema (ok) or with an error: the handler
\* resumes, handles the event and runs up to its next getSchema call
GetSchemaCallback(h, ok) ==
    LET w1 == getEventSchemaFromId(World, h.schemaIds[h.i], ok)
        w2 == handleEvent(w1, h, IF ok THEN "resolved" ELSE "failed")
        r == runHandler(w2, [h EXCEPT !.i = @ + 1])
    IN  /\ ApplySchema(r.w)
        /\ handlers' = (handlers \ {h}) \cup Waiting(h, r.at)
        /\ UNCHANGED <<messages, manual, result>>

\* -------------------------------------------------------- specifications
\* Spec: the API calls on two topics, two streams and two emitters, with the
\* transport ending streams and delivering one single-event message
Limits == [sessions |-> MaxSessions, streams |-> 2, emitters |-> 2,
           messages |-> 1, inflight |-> 2, manual |-> 1]

Next ==
    \/ Connect(Limits)
    \/ \E t \in Topics, n \in {NumNull, Num(0), Num(1)} :
           Subscribe(Limits, t, n)
    \/ \E e \in DOMAIN emitters, n \in AdditionalInputs :
           RequestAdditionalEvents(Limits, e, n)
    \/ Disconnect
    \/ \E s \in DOMAIN streams : OnData(Limits, s, EventsMessage(1, {}, 7))
    \/ \E h \in handlers : DataHandlerStep(h)
    \/ \E s \in DOMAIN streams : OnEnd(s)

Spec == Init /\ [][Next]_vars

\* SpecFlow: one client, up to two subscriptions of one topic, messages of one
\* or two events that parse, handled concurrently
FlowLimits == [sessions |-> 1, streams |-> 2, emitters |-> 2,
               messages |-> FlowMessages, inflight |-> 2, manual |-> 1]

NextFlow ==
    \/ Connect(FlowLimits)
    \/ \E n \in {NumNull, Num(2)} : Subscribe(FlowLimits, "t1", n)
    \/ \E e \in DOMAIN emitters, n \in AdditionalInputs :
           RequestAdditionalEvents(FlowLimits, e, n)
    \/ Disconnect
    \/ \E s \in DOMAIN streams, n \in {1, 2} :
           OnData(FlowLimits, s, EventsMessage(n, {}, 7))
    \/ \E h \in handlers : DataHandlerStep(h)
    \/ \E s \in DOMAIN streams : OnEnd(s)

SpecFlow == Init /\ [][NextFlow]_vars

\* SpecDecode: one client and one subscription, messages without events and
\* messages whose events fail to parse at any position
DecodeLimits == [sessions |-> 1, streams |-> 1, emitters |-> 1,
                 messages |-> DecodeMessages, inflight |-> DecodeInFlight,
                 manual |-> 0]

NextDecode ==
    \/ Connect(DecodeLimits)
    \/ \E n \in {NumNull, Num(2)} : Subscribe(DecodeLimits, "t1", n)
    \/ Disconnect
    \/ \E s \in DOMAIN streams, msg \in MessagesOf({1, 2}) :
           OnData(DecodeLimits, s, msg)
    \/ \E h \in handlers : DataHandlerStep(h)
    \/ \E s \in DOMAIN streams : OnEnd(s)

SpecDecode == Init /\ [][NextDecode]_vars

\* SpecBatch: unbounded subscriptions of one topic and messages of a whole
\* batch, handled one at a time
BatchLimits == [sessions |-> 2, streams |-> 2, emitters |-> 2,
                messages |-> BatchMessages, inflight |-> 1, manual |-> 0]

NextBatch ==
    \/ Connect(BatchLimits)
    \/ Subscribe(BatchLimits, "t1", NumNull)
    \/ Disconnect
    \/ \E s \in DOMAIN streams :
           OnData(BatchLimits, s, EventsMessage(MAX_EVENT_BATCH_SIZE, {}, 7))
    \/ \E h \in handlers : DataHandlerStep(h)
    \/ \E s \in DOMAIN streams : OnEnd(s)

SpecBatch == Init /\ [][NextBatch]_vars

\* SpecLive: one client, two subscriptions of one topic, a single-event
\* message, streams that end or fail; the handlers in flight resume and the
\* transport signals "end" on the streams disconnect() closed
LiveLimits == [sessions |-> 1, streams |-> 2, emitters |-> 2,
               messages |-> 1, inflight |-> 2, manual |-> 0]

NextLive ==
    \/ Connect(LiveLimits)
    \/ \E n \in {NumNull, Num(1)} : Subscribe(LiveLimits, "t1", n)
    \/ Disconnect
    \/ \E s \in DOMAIN streams : OnData(LiveLimits, s, EventsMessage(1, {}, 7))
    \/ \E h \in handlers : DataHandlerStep(h)
    \/ \E s \in DOMAIN streams : OnEnd(s)
    \/ \E s \in DOMAIN streams : OnError(s)

SpecLive ==
    /\ Init
    /\ [][NextLive]_vars
    /\ WF_vars(\E h \in handlers : DataHandlerStep(h))
    /\ \A s \in 1..LiveLimits.streams :
           WF_vars(s \in DOMAIN streams /\ OnEndAfterClose(s))

\* SpecValidate: subscribe calls with every kind of numRequested argument, on
\* a client that is connected or not
ValidateInputs == {NumNull, Num(-1), Num(0), Num(1), Num(MAX_EVENT_BATCH_SIZE),
                   Num(MAX_EVENT_BATCH_SIZE + 1), NumFraction, NumUnsafe,
                   NumString}

ValidateLimits == [sessions |-> 1, streams |-> 2, emitters |-> 2,
                   messages |-> 0, inflight |-> 0, manual |-> 0]

NextValidate ==
    \/ Connect(ValidateLimits)
    \/ \E t \in Topics, n \in ValidateInputs : Subscribe(ValidateLimits, t, n)
    \/ Disconnect
    \/ \E s \in DOMAIN streams : OnEnd(s)

SpecValidate == Init /\ [][NextValidate]_vars

\* SpecCodec: the replay id codec on numbers below 2^53 spread over the four
\* limbs, and decodeReplayId on buffers of other lengths and larger numbers
ReplayIds == {<<a, b, c, d>> : a \in {0, 1, 31},
                               b \in {0, 255, 65535},
                               c \in {0, 1, 256, 65535},
                               d \in {0, 1, 255, 256, 65535}}

InitCodec ==
    /\ client = NoClient
    /\ sessions = 0
    /\ closed = {}
    /\ subscriptions = [t \in Topics |-> NoStream]
    /\ streams = <<>>
    /\ emitters = <<>>
    /\ handlers = {}
    /\ messages = 0
    /\ manual = 0
    /\ rejections = 0
    /\ schemaCache = {}
    /\ getSchemaCalls = [id \in SchemaIds |-> 0]
    /\ order = <<>>
    /\ \E x \in ReplayIds :
           result = [op |-> "input", replayId |-> x, buf |-> <<>>,
                     from |-> "input",
                     decoded |-> [error |-> "none", value |-> <<>>]]

NextCodec ==
    \/ EncodeCall
    \/ \E len \in 0..MaxBufferLen : Resize(len)
    \/ \E byte \in {1, 255} : Enlarge(byte)
    \/ DecodeCall

SpecCodec == InitCodec /\ [][NextCodec]_vars

\* SpecBitmap: parseFieldBitmaps on field lists of several lengths, with
\* every top-level bitmap of up to MaxDigits hex digits, alone or followed by
\* a compound entry, and with compound entries alone
Field(name, children) == [name |-> name, children |-> children]
FieldABCD == <<Field("A", <<>>),
               Field("B", <<Field("c0", <<>>), Field("c1", <<>>)>>),
               Field("C", <<>>),
               Field("D", <<>>)>>
FieldLists == {<<>>, SubSeq(FieldABCD, 1, 2), FieldABCD,
               FieldABCD \o <<Field("E", <<Field("e0", <<>>)>>)>>}

HexDigits == <<"0", "1", "2", "3", "4", "5", "6", "7", "8", "9",
               "A", "B", "C", "D", "E", "F", "a", "b", "c", "d", "e", "f">>
HexPrefix == <<"0", "x">>

RECURSIVE DigitStrings(_)
\* the strings of 1 to n hex digits
DigitStrings(n) ==
    IF n = 0 THEN {}
    ELSE {<<HexDigits[d]>> : d \in DOMAIN HexDigits}
         \cup DigitStrings(n - 1)
         \cup {str \o <<HexDigits[d]>> :
                   str \in DigitStrings(n - 1), d \in DOMAIN HexDigits}

TopLevelBitmaps == {HexPrefix \o digits : digits \in DigitStrings(MaxDigits)}

\* "<parentFieldIndex>-<childBitmapHex>", the child bitmap with or without
\* the hex prefix
CompoundEntries ==
    {<<index, "-">> \o prefix \o <<"0", digit>> :
        index \in {"0", "1", "4"}, prefix \in {<<>>, HexPrefix},
        digit \in {"1", "2", "3"}}

BitmapLists ==
    {<<top>> : top \in TopLevelBitmaps}
    \cup {<<top, compound>> : top \in {HexPrefix \o <<"0", "5">>},
                              compound \in CompoundEntries}
    \cup {<<compound>> : compound \in CompoundEntries}
    \cup {<<>>}

InitBitmap ==
    /\ client = NoClient
    /\ sessions = 0
    /\ closed = {}
    /\ subscriptions = [t \in Topics |-> NoStream]
    /\ streams = <<>>
    /\ emitters = <<>>
    /\ handlers = {}
    /\ messages = 0
    /\ manual = 0
    /\ rejections = 0
    /\ schemaCache = {}
    /\ getSchemaCalls = [id \in SchemaIds |-> 0]
    /\ order = <<>>
    /\ \E allFields \in FieldLists, bitmaps \in BitmapLists :
           result = [op |-> "input", allFields |-> allFields,
                     bitmaps |-> bitmaps,
                     out |-> [error |-> "none", names |-> <<>>]]

NextBitmap == ParseFieldBitmapsCall

SpecBitmap == InitBitmap /\ [][NextBitmap]_vars

\* SpecParse: parseEvent and its flattening step on payloads whose attribute
\* Name nests objects of one and of two keys up to MaxDepth deep, with a
\* change-tracking header of one key, of several keys, or without one
RECURSIVE Values(_)
Values(depth) ==
    IF depth = 0 THEN {Prim("x"), Null}
    ELSE Values(0)
         \cup {Obj(<<Entry("string", v)>>) : v \in Values(depth - 1)}
         \cup {Obj(<<Entry("a", v), Entry("b", u)>>) :
                   v \in Values(depth - 1), u \in Values(depth - 1)}

Bitmap05 == Array(<<HexPrefix \o <<"0", "5">>>>)
Headers ==
    {Obj(<<Entry("nulledFields", Array(<<>>)), Entry("diffFields", Array(<<>>)),
           Entry("changedFields", Bitmap05)>>),
     Obj(<<Entry("entityName", Obj(<<Entry("string", Prim("Account"))>>)),
           Entry("nulledFields", Array(<<>>)), Entry("diffFields", Array(<<>>)),
           Entry("changedFields", Bitmap05)>>),
     Obj(<<Entry("changedFields", Bitmap05)>>),
     Obj(<<Entry("entityName", Obj(<<Entry("string", Prim("Account"))>>))>>)}

Payloads ==
    {Obj(<<Entry("Name", v)>>) : v \in Values(MaxDepth)}
    \cup {Obj(<<Entry("ChangeEventHeader", h), Entry("Name", v)>>) :
              h \in Headers, v \in Values(MaxDepth)}

Events ==
    {[event |-> TRUE, replayId |-> encodeReplayId(Wide(7)), decoded |-> p] :
        p \in Payloads}
    \cup {[event |-> FALSE, replayId |-> encodeReplayId(Wide(7)),
           decoded |-> Undefined]}

InitParse ==
    /\ client = NoClient
    /\ sessions = 0
    /\ closed = {}
    /\ subscriptions = [t \in Topics |-> NoStream]
    /\ streams = <<>>
    /\ emitters = <<>>
    /\ handlers = {}
    /\ messages = 0
    /\ manual = 0
    /\ rejections = 0
    /\ schemaCache = {}
    /\ getSchemaCalls = [id \in SchemaIds |-> 0]
    /\ order = <<>>
    /\ \E event \in Events :
           result = [op |-> "input", schema |-> [fields |-> FieldABCD],
                     event |-> event,
                     out |-> [error |-> "none", replayId |-> <<>>,
                              payload |-> Undefined]]

NextParse == ParseEventCall \/ FlattenCall

SpecParse == InitParse /\ [][NextParse]_vars

\* SpecSchema: one client and one subscription, messages of one event, which
\* may fail to parse, or of two events, of one schema or of two; every getSchema call
\* is answered, in any order, with the schema or with an error
SchemaLimits == [sessions |-> 1, streams |-> 1, emitters |-> 1,
                 messages |-> SchemaMessages, inflight |-> 2, manual |-> 0]

SchemaMessages1 ==
    {SchemaMessage(<<id>>, bad) : id \in SchemaIds, bad \in {{}, {1}}}
SchemaMessages2 == {SchemaMessage(<<"a", id>>, {}) : id \in SchemaIds}

NextSchema ==
    \/ Connect(SchemaLimits)
    \/ \E n \in {NumNull, Num(2)} : Subscribe(SchemaLimits, "t1", n)
    \/ Disconnect
    \/ \E s \in DOMAIN streams, msg \in SchemaMessages1 \cup SchemaMessages2 :
           OnSchemaData(SchemaLimits, s, msg)
    \/ \E h \in handlers, ok \in BOOLEAN : GetSchemaCallback(h, ok)
    \/ \E s \in DOMAIN streams : OnEnd(s)

SpecSchema == Init /\ [][NextSchema]_vars

\* ------------------------------------------------------------ properties
RECURSIVE CountWrites(_, _, _)
\* the messages of origin o that emitter e wrote on the streams 1..k
CountWrites(e, o, k) ==
    IF k = 0 THEN 0
    ELSE CountWrites(e, o, k - 1) +
         Cardinality({j \in DOMAIN streams[k].writes :
                         /\ streams[k].writes[j].em = e
                         /\ streams[k].writes[j].origin = o})
WritesOf(e, o) == CountWrites(e, o, Len(streams))

InFlight(e) == {h \in handlers : h.em = e}

\* C1: a bounded subscription for N events on which the caller made no
\* re-request has, once exactly N events were delivered and handled, emitted
\* "lastevent" exactly once, and its handler wrote no re-request: the only
\* message written for the subscription is its subscribe message, on its
\* own stream.
C1_BoundedLastEventOnce ==
    \A e \in DOMAIN emitters :
        LET em == emitters[e]
        IN  (/\ ~em.infinite
             /\ WritesOf(e, "manual") = 0
             /\ em.delivered = em.requestedEventCount
             /\ InFlight(e) = {})
            => /\ em.emitted["lastevent"] = 1
               /\ WritesOf(e, "auto") = 0
               /\ WritesOf(e, "subscribe") = 1
               /\ streams[em.stream].writes[
                      CHOOSE j \in DOMAIN streams[em.stream].writes :
                          streams[em.stream].writes[j].em = e] =
                     [topicName |-> em.topicName,
                      numRequested |-> em.requestedEventCount,
                      origin |-> "subscribe", em |-> e]

\* two events of a subscription for 2 events came in two messages
C1_Witness ==
    \E e \in DOMAIN emitters :
        /\ ~emitters[e].infinite
        /\ WritesOf(e, "manual") = 0
        /\ emitters[e].requestedEventCount = 2
        /\ emitters[e].delivered = 2
        /\ InFlight(e) = {}
        /\ messages = 2
        /\ emitters[e].emitted["lastevent"] = 1

\* a step in which the received counter of an unbounded subscription that
\* asked for a batch reaches the batch size
BoundaryStep(h) ==
    /\ DataHandlerStep(h)
    /\ emitters[h.em].infinite
    /\ emitters[h.em].requestedEventCount = MAX_EVENT_BATCH_SIZE
    /\ emitters[h.em].receivedEventCount = MAX_EVENT_BATCH_SIZE - 1

\* one re-request of emitter e for a batch is written on stream s and on no
\* other stream, and the counter of e is reset
ReRequested(e, s) ==
    /\ streams'[s].writes =
          Append(streams[s].writes,
                 [topicName |-> emitters[e].topicName,
                  numRequested |-> MAX_EVENT_BATCH_SIZE,
                  origin |-> "auto", em |-> e])
    /\ \A o \in DOMAIN streams : o # s => streams'[o] = streams[o]
    /\ emitters'[e].receivedEventCount = 0
    /\ emitters'[e].requestedEventCount = MAX_EVENT_BATCH_SIZE

\* the subscribe message of every unbounded subscription asks for 100 events
InitialAsksBatch ==
    \A e \in DOMAIN emitters :
        emitters[e].infinite =>
            \E j \in DOMAIN streams[emitters[e].stream].writes :
                streams[emitters[e].stream].writes[j] =
                    [topicName |-> emitters[e].topicName,
                     numRequested |-> MAX_EVENT_BATCH_SIZE,
                     origin |-> "subscribe", em |-> e]

ZeroEventMessages == {KeepaliveMessage(258), EventsMessage(0, {}, 258)}

\* C3: every server message with zero events makes each emitter of the stream
\* emit "keepalive" once, with the decoded latest replay id, and emit no
\* "data", change no counter and write no request.
C3_KeepaliveForZeroEvents ==
    [][\A s \in DOMAIN streams, msg \in ZeroEventMessages :
          DataEvent(s, msg) =>
              /\ handlers' = handlers
              /\ \A o \in DOMAIN streams : streams'[o].writes = streams[o].writes
              /\ \A k \in DOMAIN streams[s].listeners :
                    LET e == streams[s].listeners[k]
                    IN  /\ emitters'[e].emitted =
                              [emitters[e].emitted EXCEPT !["keepalive"] = @ + 1]
                        /\ emitters'[e].latestReplayId = Wide(258)
                        /\ emitters'[e].receivedEventCount =
                              emitters[e].receivedEventCount
                        /\ emitters'[e].requestedEventCount =
                              emitters[e].requestedEventCount]_vars

RECURSIVE SumOver(_, _)
\* the sum of f[h] over the invocations h of the set S
SumOver(f, S) ==
    IF S = {} THEN 0
    ELSE LET h == CHOOSE x \in S : TRUE IN f[h] + SumOver(f, S \ {h})

\* events of the invocations of e in flight that are still to be handled
Remaining(e) == SumOver([h \in InFlight(e) |-> h.n - h.i + 1], InFlight(e))
RemainingBad(e) ==
    SumOver([h \in InFlight(e) |-> Cardinality({q \in h.bad : q >= h.i})],
            InFlight(e))

\* C10: a failing event never aborts its batch: of the k events of the
\* messages handed to an emitter, each one that parses gives one "data", each
\* one that fails gives one "error", and the others are still to be handled.
C10_EveryEventEmits ==
    \A e \in DOMAIN emitters :
        LET em == emitters[e]
        IN  /\ em.emitted["parseError"] + RemainingBad(e) = em.deliveredBad
            /\ em.emitted["data"] + em.emitted["parseError"] + Remaining(e)
                   = em.delivered

\* one message of two events, the first of which failed, is handled
C10_Witness ==
    \E e \in DOMAIN emitters :
        /\ messages = 1
        /\ InFlight(e) = {}
        /\ emitters[e].delivered = 2
        /\ emitters[e].emitted["parseError"] = 1
        /\ emitters[e].emitted["data"] = 1

Tracked == {subscriptions[t] : t \in Topics} \ {NoStream}
NoneTracked == \A t \in Topics : subscriptions[t] = NoStream
SubscribeInputs == {NumNull, Num(0), Num(1), Num(2)}

\* C4: disconnect() raises no error, and after it no stream is tracked and no
\* client is held; a second disconnect() in succession raises no error either
\* and changes nothing.
C4_DisconnectIdempotent ==
    [][Disconnect =>
          /\ result'.error = "none"
          /\ NoneTracked'
          /\ client' = NoClient
          /\ (result.op = "disconnect"
              => UNCHANGED <<client, sessions, closed, subscriptions, streams,
                             emitters, handlers>>)]_vars

\* disconnect() was called twice in succession after subscriptions were made
C4_Witness ==
    /\ result = [op |-> "disconnect", error |-> "none", streak |-> 2]
    /\ Len(emitters) > 0
    /\ NoneTracked
    /\ client = NoClient

\* C5: disconnect() on a connected client calls end() once on every tracked
\* stream and on no other, untracks them all, and closes the client after
\* these streams were ended.
C5_DisconnectEndsThenCloses ==
    [][(Disconnect /\ client # NoClient) =>
          /\ \A s \in DOMAIN streams :
                streams'[s].endCalls =
                    streams[s].endCalls + (IF s \in Tracked THEN 1 ELSE 0)
          /\ \A s \in Tracked : streams'[s].endCalls = 1
          /\ NoneTracked'
          /\ client' = NoClient
          /\ \E c \in closed' \ closed :
                /\ c.session = client
                /\ Tracked \subseteq c.ended
                /\ closed' = closed \cup {c}]_vars

\* a disconnect() ended the two streams of its client before closing it
C5_Witness ==
    /\ result.op = "disconnect"
    /\ \E c \in closed :
          Cardinality({s \in c.ended : streams[s].session = c.session}) = 2

\* C6: subscribe fails when no client is held, and then opens no stream,
\* tracks nothing, creates no emitter and writes nothing.
C6_SubscribeNeedsClient ==
    [][\A t \in Topics, n \in SubscribeInputs :
          (SubscribeCall(t, n) /\ client = NoClient) =>
              /\ result'.error # "none"
              /\ UNCHANGED <<client, subscriptions, streams, emitters,
                             handlers>>]_vars

\* a subscribe call after disconnect() failed for want of a client
C6_Witness ==
    /\ result = [op |-> "subscribe", error |-> "client is not connected",
                 streak |-> 1]
    /\ client = NoClient
    /\ closed # {}
    /\ NoneTracked

\* C7: tracked streams are open and distinct per topic; subscribe to a topic
\* with a tracked stream reuses it and opens none, subscribe to an untracked
\* topic opens exactly one stream and tracks it under that topic.
C7_OneStreamPerTopic ==
    [][/\ \A t \in Topics :
             subscriptions[t] # NoStream =>
                 /\ ~streams[subscriptions[t]].ended
                 /\ streams[subscriptions[t]].endCalls = 0
                 /\ \A u \in Topics \ {t} : subscriptions[u] # subscriptions[t]
       /\ \A t \in Topics, n \in SubscribeInputs :
             (SubscribeCall(t, n) /\ result'.error = "none") =>
                 LET e == Len(emitters) + 1
                     msg == [topicName |-> t,
                             numRequested |-> emitters'[e].requestedEventCount,
                             origin |-> "subscribe", em |-> e]
                 IN  IF subscriptions[t] # NoStream
                     THEN /\ Len(streams') = Len(streams)
                          /\ subscriptions' = subscriptions
                          /\ emitters'[e].stream = subscriptions[t]
                          /\ streams'[subscriptions[t]].writes =
                                Append(streams[subscriptions[t]].writes, msg)
                     ELSE /\ Len(streams') = Len(streams) + 1
                          /\ subscriptions' =
                                [subscriptions EXCEPT ![t] = Len(streams) + 1]
                          /\ emitters'[e].stream = Len(streams) + 1
                          /\ streams'[Len(streams) + 1].writes = <<msg>>
                          /\ \A s \in DOMAIN streams :
                                streams'[s] = streams[s]]_vars

\* a second subscribe call for a topic reused the stream the first had opened
C7_Witness ==
    /\ \E s \in DOMAIN streams : Len(streams[s].listeners) = 2
    /\ Len(streams) = 1
    /\ result.op = "subscribe" /\ result.error = "none"

\* C8: requestAdditionalEvents fails when the topic of the emitter has no
\* tracked stream, and then writes nothing and leaves the counters unchanged.
C8_RequestNeedsSubscription ==
    [][\A e \in DOMAIN emitters, n \in AdditionalInputs :
          (RequestCall(e, n) /\ subscriptions[emitters[e].topicName] = NoStream)
          => /\ result'.error = "no active subscription found"
             /\ UNCHANGED <<subscriptions, streams, emitters>>]_vars

\* a re-request failed on an emitter that had received an event
C8_Witness ==
    /\ result.op = "requestAdditionalEvents"
    /\ result.error = "no active subscription found"
    /\ \E e \in DOMAIN emitters :
          /\ subscriptions[emitters[e].topicName] = NoStream
          /\ emitters[e].receivedEventCount = 1

\* C9: requestAdditionalEvents on a topic with a tracked stream sets the
\* received counter of the emitter to 0 and its requested counter to the
\* count, and writes exactly one request for the topic and the count on
\* that stream.
C9_RequestResetsAndWrites ==
    [][\A e \in DOMAIN emitters, n \in AdditionalInputs :
          (RequestCall(e, n) /\ subscriptions[emitters[e].topicName] # NoStream)
          => LET s == subscriptions[emitters[e].topicName]
             IN  /\ result'.error = "none"
                 /\ emitters'[e] = [emitters[e] EXCEPT
                                       !.receivedEventCount = 0,
                                       !.requestedEventCount = n]
                 /\ \A o \in DOMAIN emitters : o # e => emitters'[o] = emitters[o]
                 /\ streams'[s] = [streams[s] EXCEPT !.writes =
                        Append(@, [topicName |-> emitters[e].topicName,
                                   numRequested |-> n,
                                   origin |-> "manual", em |-> e])]
                 /\ \A o \in DOMAIN streams : o # s => streams'[o] = streams[o]
                 /\ subscriptions' = subscriptions]_vars

\* a re-request reset the counters of an emitter that had received an event
C9_Witness ==
    /\ result.op = "requestAdditionalEvents"
    /\ result.error = "none"
    /\ \E e \in DOMAIN emitters :
          /\ WritesOf(e, "manual") = 1
          /\ emitters[e].emitted["data"] = 1
          /\ emitters[e].receivedEventCount = 0
          /\ emitters[e].requestedEventCount = 2

\* C11: when the transport signals "end" on a stream, the topic of every
\* emitter of the stream has no tracked stream afterwards and each of these
\* emitters emits "end" once; a subscribe call that succeeds afterwards never
\* reuses an ended stream: for an untracked topic it opens a new one.
C11_EndUntracksAndReopens ==
    [][/\ \A s \in DOMAIN streams :
             OnEnd(s) =>
                 /\ streams'[s].ended
                 /\ \A k \in DOMAIN streams[s].listeners :
                       LET e == streams[s].listeners[k]
                       IN  /\ subscriptions'[emitters[e].topicName] = NoStream
                           /\ emitters'[e].emitted =
                                 [emitters[e].emitted EXCEPT !["end"] = @ + 1]
       /\ \A t \in Topics, n \in SubscribeInputs :
             (SubscribeCall(t, n) /\ result'.error = "none") =>
                 LET s == emitters'[Len(emitters) + 1].stream
                 IN  /\ ~streams'[s].ended
                     /\ subscriptions'[t] = s
                     /\ (subscriptions[t] = NoStream
                         => s = Len(streams) + 1 /\ Len(streams') = s)]_vars

\* after the stream of a topic ended, a subscribe call for the topic got a
\* new stream
C11_Witness ==
    \E e1, e2 \in DOMAIN emitters :
        /\ emitters[e1].topicName = emitters[e2].topicName
        /\ streams[emitters[e1].stream].ended
        /\ emitters[e1].emitted["end"] = 1
        /\ emitters[e2].stream # emitters[e1].stream
        /\ subscriptions[emitters[e2].topicName] = emitters[e2].stream
        /\ ~streams[emitters[e2].stream].ended

\* the stream of emitter e was closed by disconnect(), ended, or failed
\* while e listened to it, or the bounded count of e is reached
Outcome(e) ==
    /\ e \in DOMAIN emitters
    /\ \/ streams[emitters[e].stream].endCalls > 0
       \/ streams[emitters[e].stream].ended
       \/ \E k \in 1..streams[emitters[e].stream].failedFor :
              streams[emitters[e].stream].listeners[k] = e
       \/ /\ ~emitters[e].infinite
          /\ emitters[e].receivedEventCount = emitters[e].requestedEventCount

\* emitter e has emitted "end", a transport "error" or "lastevent"
Terminal(e) ==
    /\ e \in DOMAIN emitters
    /\ \/ emitters[e].emitted["end"] > 0
       \/ emitters[e].emitted["error"] > 0
       \/ emitters[e].emitted["lastevent"] > 0

Rejected ==
    /\ result'.error # "none"
    /\ UNCHANGED <<client, subscriptions, streams, emitters, handlers>>

\* a subscribe call for topic t that succeeds and writes a request for n
\* events on the stream of the topic
AcceptedFor(t, n) ==
    /\ result'.error = "none"
    /\ subscriptions'[t] # NoStream
    /\ LET writes == streams'[subscriptions'[t]].writes
       IN  writes[Len(writes)] =
               [topicName |-> t, numRequested |-> n, origin |-> "subscribe",
                em |-> Len(emitters) + 1]
    /\ emitters'[Len(emitters) + 1].requestedEventCount = n

\* C13 as stated: subscribe rejects a count that is present and is not a
\* positive integer, changing nothing; on a connected client it accepts every
\* positive integer above 100 and writes it unchanged.
C13_RejectsNonPositiveAcceptsLarge ==
    [][\A t \in Topics, n \in ValidateInputs :
          SubscribeCall(t, n) =>
              /\ (n.type # "null" /\ ~(n.int /\ n.val >= 1)) => Rejected
              /\ (n.int /\ n.val > MAX_EVENT_BATCH_SIZE /\ client # NoClient)
                     => AcceptedFor(t, n.val)]_vars

\* C13 amended: the same, where the integers accepted above 100 are the safe
\* integers (below 2^53); an integer of 2^53 or more is rejected like the
\* counts that are not positive integers.
C13_RejectsNonPositiveAcceptsSafeLarge ==
    [][\A t \in Topics, n \in ValidateInputs :
          SubscribeCall(t, n) =>
              /\ (n.type # "null" /\ ~(n.safe /\ n.val >= 1)) => Rejected
              /\ (n.safe /\ n.val > MAX_EVENT_BATCH_SIZE /\ client # NoClient)
                     => AcceptedFor(t, n.val)]_vars

\* a request for 101 events was written, and a later call with a count that
\* is not a positive integer was rejected on the connected client
C13_Witness ==
    /\ result.op = "subscribe"
    /\ result.error = "Expected an integer greater than 1"
    /\ client # NoClient
    /\ \E e \in DOMAIN emitters :
          /\ emitters[e].requestedEventCount = MAX_EVENT_BATCH_SIZE + 1
          /\ ~emitters[e].infinite
          /\ \E j \in DOMAIN streams[emitters[e].stream].writes :
                streams[emitters[e].stream].writes[j].numRequested =
                    MAX_EVENT_BATCH_SIZE + 1

\* C14: for every replay id x below 2^53, encodeReplayId(x) has 8 bytes that
\* are the big-endian unsigned encoding of x, and decodeReplayId of these
\* bytes returns x.
C14_ReplayIdRoundTrip ==
    /\ result.op = "encodeReplayId" =>
          /\ Len(result.buf) = 8
          /\ \A i \in 1..8 : result.buf[i] \in 0..255
          /\ \A k \in 1..4 :
                result.buf[2 * k - 1] * 256 + result.buf[2 * k]
                    = result.replayId[k]
    /\ (result.op = "decodeReplayId" /\ result.from = "encodeReplayId") =>
          result.decoded = [error |-> "none", value |-> result.replayId]

\* 2^53 - 1 was encoded and decoded
C14_Witness ==
    /\ result.op = "decodeReplayId"
    /\ result.from = "encodeReplayId"
    /\ result.replayId = <<31, 65535, 65535, 65535>>
    /\ result.buf = <<0, 31, 255, 255, 255, 255, 255, 255>>
    /\ result.decoded.value = result.replayId

\* C19: decodeReplayId fails for every buffer that has not exactly 8 bytes,
\* shorter or longer, and returns a value only for buffers of 8 bytes.
C19_DecodeNeedsEightBytes ==
    result.op = "decodeReplayId" =>
        (result.decoded.error = "none" <=> Len(result.buf) = 8)

\* the value of a hex digit
HexValue(digit) ==
    LET d == CHOOSE k \in DOMAIN HexDigits : HexDigits[k] = digit
    IN  IF d <= 16 THEN d - 1 ELSE d - 7

\* the bit at position i, counted from 0, of the bit string of the digits
\* (each digit expanded to 4 bits, concatenated, then reversed)
BitAt(digits, i) ==
    LET j == 4 * Len(digits) - 1 - i
    IN  (HexValue(digits[j \div 4 + 1]) \div 2^(3 - (j % 4))) % 2

RECURSIVE SelectedFrom(_, _, _)
\* the names fields[i] for the positions i, from position i on in increasing
\* order, at which the bit string of the digits holds 1
SelectedFrom(fields, digits, i) ==
    IF i >= 4 * Len(digits) \/ i >= Len(fields) THEN <<>>
    ELSE (IF BitAt(digits, i) = 1 THEN <<fields[i + 1].name>> ELSE <<>>)
         \o SelectedFrom(fields, digits, i + 1)

Selected(fields, digits) == SelectedFrom(fields, digits, 0)

HasHexPrefix(str) == Len(str) >= 2 /\ SubSeq(str, 1, 2) = HexPrefix

\* C15: for every field list and every top-level bitmap with the hex prefix,
\* the resolved names are the names fields[i] of the positions i at which the
\* reversed bit string holds 1, in increasing order of i, positions beyond
\* the field list ignored; fields [A,B,C,D] and 0x05 give [A, C].
C15_TopLevelBitmapResolution ==
    (/\ result.op = "parseFieldBitmaps"
     /\ Len(result.bitmaps) = 1
     /\ HasHexPrefix(result.bitmaps[1]))
    => /\ result.out.error = "none"
       /\ result.out.names =
             Selected(result.allFields,
                      SubSeq(result.bitmaps[1], 3, Len(result.bitmaps[1])))
       /\ (/\ result.allFields = FieldABCD
           /\ result.bitmaps[1] = HexPrefix \o <<"0", "5">>)
          => result.out.names = <<"A", "C">>

\* the hex digits of a child bitmap, written with or without the hex prefix
ChildDigits(str) == IF HasHexPrefix(str) THEN SubSeq(str, 3, Len(str)) ELSE str

\* the names a compound entry selects: those of the selected child fields of
\* fields[parentFieldIndex], each prefixed with the parent name and a dot
CompoundSelected(fields, entry) ==
    LET parts == split(entry, "-")
        parentField == fields[parseInt(parts[1]) + 1]
        names == Selected(parentField.children, ChildDigits(parts[2]))
    IN  [k \in DOMAIN names |-> parentField.name \o "." \o names[k]]

IsCompound(entry) == \E i \in DOMAIN entry : entry[i] = "-"

\* C16: a compound entry "<parentFieldIndex>-<childBitmapHex>" that follows
\* a top-level bitmap and whose parent index lies in the field list resolves
\* to the names of the selected child fields of that parent, prefixed with
\* the parent name and a dot, after the names of the top-level bitmap; "1-03"
\* with parent B of two children gives [B.c0, B.c1].
C16_CompoundBitmapResolution ==
    (/\ result.op = "parseFieldBitmaps"
     /\ Len(result.bitmaps) = 2
     /\ IsCompound(result.bitmaps[Len(result.bitmaps)])
     /\ parseInt(split(result.bitmaps[Len(result.bitmaps)], "-")[1]) + 1
            \in DOMAIN result.allFields)
    => LET entry == result.bitmaps[Len(result.bitmaps)]
           top == Selected(result.allFields, ChildDigits(result.bitmaps[1]))
       IN  /\ result.out.error = "none"
           /\ result.out.names = top \o CompoundSelected(result.allFields, entry)
           /\ (entry = <<"1", "-", "0", "3">> /\ result.allFields = FieldABCD)
              => SubSeq(result.out.names, Len(top) + 1, Len(result.out.names))
                     = <<"B.c0", "B.c1">>

RECURSIVE HasWrapper(_)
\* some attribute of the object outside the change-tracking header, at any
\* depth, is an object of a single key
HasWrapper(object) ==
    \E i \in DOMAIN object.entries :
        LET value == object.entries[i].value
        IN  /\ object.entries[i].key # "ChangeEventHeader"
            /\ value.kind = "obj"
            /\ (Len(value.entries) = 1 \/ HasWrapper(value))

RECURSIVE Unwrapped(_)
\* the value with every single-key object outside the change-tracking
\* header replaced by its sole inner value, repeatedly
Unwrapped(value) ==
    IF value.kind # "obj" THEN value
    ELSE IF Len(value.entries) = 1 THEN Unwrapped(value.entries[1].value)
    ELSE Obj([i \in DOMAIN value.entries |->
                 IF value.entries[i].key = "ChangeEventHeader"
                 THEN value.entries[i]
                 ELSE Entry(value.entries[i].key,
                            Unwrapped(value.entries[i].value))])

\* the payload with its attributes outside the header unwrapped
Flattened(payload) ==
    Obj([i \in DOMAIN payload.entries |->
            IF payload.entries[i].key = "ChangeEventHeader"
            THEN payload.entries[i]
            ELSE Entry(payload.entries[i].key,
                       Unwrapped(payload.entries[i].value))])

\* the header as the bitmap resolution of parseEvent leaves it for the schema
\* [A,B,C,D]: the changed fields 0x05 are A and C
Resolved(header) == Set(header, "changedFields", Array(<<"A", "C">>))

\* C17: in the payload that parseEvent returns, and after its flattening
\* step alone, no attribute outside the change-tracking header is a
\* single-key object at any depth: every such wrapper was replaced by its
\* sole inner value, repeatedly.
C17_FlatteningComplete ==
    (result.op \in {"parseEvent", "flattenSinglePropertyObjects"}
     /\ result.out.error = "none")
    => /\ ~HasWrapper(result.out.payload)
       /\ \A i \in DOMAIN result.out.payload.entries :
             result.out.payload.entries[i].key # "ChangeEventHeader" =>
                 result.out.payload.entries[i] =
                     Flattened(result.event.decoded).entries[i]

\* C18: the flattening step leaves the change-tracking header as it was,
\* also a header of a single key; the header in the payload that parseEvent
\* returns is the header as the bitmap resolution left it.
C18_HeaderNotFlattened ==
    /\ result.op = "flattenSinglePropertyObjects" =>
          /\ Get(result.out.payload, "ChangeEventHeader") =
                Get(result.event.decoded, "ChangeEventHeader")
          /\ Len(result.out.payload.entries) = Len(result.event.decoded.entries)
    /\ (result.op = "parseEvent" /\ result.out.error = "none") =>
          Get(result.out.payload, "ChangeEventHeader") =
              (IF Get(result.event.decoded, "ChangeEventHeader").kind = "obj"
               THEN Resolved(Get(result.event.decoded, "ChangeEventHeader"))
               ELSE Undefined)

\* the flattening step ran on a payload whose header has a single key that
\* holds a single-key object, and unwrapped the attribute next to it
C18_Witness ==
    /\ result.op = "flattenSinglePropertyObjects"
    /\ Get(result.event.decoded, "ChangeEventHeader") =
          Obj(<<Entry("entityName", Obj(<<Entry("string", Prim("Account"))>>))>>)
    /\ Get(result.out.payload, "ChangeEventHeader") =
          Get(result.event.decoded, "ChangeEventHeader")
    /\ Get(result.event.decoded, "Name") = Obj(<<Entry("string", Prim("x"))>>)
    /\ Get(result.out.payload, "Name") = Prim("x")

\* C20: in every reachable state the received counter of every emitter is at
\* most its requested counter, whatever the number of events delivered.
C20_ReceivedAtMostRequested ==
    \A e \in DOMAIN emitters :
        emitters[e].receivedEventCount <= emitters[e].requestedEventCount

\* the bounded subscription of emitter e has emitted "lastevent" and no
\* request has reset its counters since
AfterLastEvent(e) ==
    /\ ~emitters[e].infinite
    /\ emitters[e].emitted["lastevent"] > 0
    /\ emitters[e].receivedEventCount >= emitters[e].requestedEventCount

\* C21: every event handled for a bounded subscription after its "lastevent",
\* with no re-request made since, is forwarded as one "data" if it parses
\* and as one "error" if it fails, emits no further "lastevent", writes no
\* message on any stream and attempts no re-request.
C21_ForwardsAfterLastEvent ==
    [][\A h \in handlers :
          (DataHandlerStep(h) /\ AfterLastEvent(h.em)) =>
              /\ emitters'[h.em].emitted =
                    [emitters[h.em].emitted EXCEPT
                        ![IF h.i \in h.bad THEN "parseError" ELSE "data"] = @ + 1]
              /\ \A s \in DOMAIN streams : streams'[s].writes = streams[s].writes
              /\ rejections' = rejections]_vars

\* a subscription for 2 events was handed 4, of which one after the second
\* failed: "lastevent" was emitted once and the 4 events were forwarded
C21_Witness ==
    \E e \in DOMAIN emitters :
        /\ ~emitters[e].infinite
        /\ emitters[e].requestedEventCount = 2
        /\ emitters[e].receivedEventCount = 4
        /\ InFlight(e) = {}
        /\ emitters[e].emitted["lastevent"] = 1
        /\ emitters[e].emitted["data"] = 3
        /\ emitters[e].emitted["parseError"] = 1

C23_MessageProcessedOnce ==
    [][\A s \in DOMAIN streams, n \in {1, 2} :
          DataEvent(s, EventsMessage(n, {}, 7)) =>
              /\ Len(streams[s].listeners) = 1
              /\ Cardinality(handlers' \ handlers) = 1]_vars

\* C24: a transport "error" on a stream makes every emitter of the stream
\* emit "error" once and changes nothing else: the tracked streams and the
\* client stay as they were, no counter and no other signal of any emitter
\* changes, nothing is written or ended on any stream, no stream is opened
\* and no handler invocation starts or stops.
C24_ErrorOnlyForwarded ==
    [][\A s \in DOMAIN streams :
          OnError(s) =>
              /\ UNCHANGED <<client, sessions, closed, subscriptions, handlers,
                             rejections>>
              /\ DOMAIN streams' = DOMAIN streams
              /\ \A o \in DOMAIN streams :
                    /\ streams'[o].writes = streams[o].writes
                    /\ streams'[o].endCalls = streams[o].endCalls
                    /\ streams'[o].ended = streams[o].ended
                    /\ streams'[o].listeners = streams[o].listeners
              /\ DOMAIN emitters' = DOMAIN emitters
              /\ \A e \in DOMAIN emitters :
                    emitters'[e] =
                        IF \E k \in DOMAIN streams[s].listeners :
                               streams[s].listeners[k] = e
                        THEN [emitters[e] EXCEPT !.emitted["error"] = @ + 1]
                        ELSE emitters[e]]_vars

\* the stream of a subscription that had received an event failed: its
\* emitter emitted "error" once, the stream is still tracked for the topic
\* and the counter kept its value
C24_Witness ==
    \E e \in DOMAIN emitters :
        /\ streams[emitters[e].stream].failed
        /\ emitters[e].emitted["error"] = 1
        /\ emitters[e].emitted["end"] = 0
        /\ emitters[e].receivedEventCount = 1
        /\ subscriptions[emitters[e].topicName] = emitters[e].stream

\* the compound entry names a parent field index outside the field list, or
\* a parent field without child fields
BadParent(fields, entry) ==
    /\ IsCompound(entry)
    /\ LET index == parseInt(split(entry, "-")[1])
       IN  \/ index + 1 \notin DOMAIN fields
           \/ fields[index + 1].children = <<>>

\* C26: parseFieldBitmaps fails whenever its bitmap list, a top-level bitmap
\* followed by compound entries, holds a compound entry whose parent field
\* index lies outside the field list or whose parent field has no
\* record-typed child branch.
C26_BadParentFails ==
    (/\ result.op = "parseFieldBitmaps"
     /\ Len(result.bitmaps) >= 2
     /\ HasHexPrefix(result.bitmaps[1])
     /\ \E k \in DOMAIN result.bitmaps :
            BadParent(result.allFields, result.bitmaps[k]))
    => result.out.error # "none"

\* C28: the "end" signal of a stream leaves the stream tracked for every
\* topic untouched unless it is the stream that ended.
C28_EndRemovesOwnStateOnly ==
    [][\A s \in DOMAIN streams :
          OnEnd(s) =>
              \A t \in Topics :
                  subscriptions[t] # s => subscriptions'[t] = subscriptions[t]]_vars

\* the events of schema id handled so far after a lookup that ended as `via`
Handled(id, via) ==
    {k \in DOMAIN order : order[k].schemaId = id /\ order[k].via = via}

\* the invocations that wait for a getSchema call for schema id
WaitingFor(id) == {h \in handlers : h.schemaIds[h.i] = id}

\* the cache holds exactly the schemas that some getSchema call returned, an
\* event whose schema failed to load was reported as "error", and getSchema
\* was called once for every event looked up, and only for these
NoFailureCached ==
    \A id \in SchemaIds :
        /\ id \in schemaCache <=> Handled(id, "resolved") # {}
        /\ \A k \in Handled(id, "failed") : order[k].signal = "error"
        /\ getSchemaCalls[id] =
               Cardinality(Handled(id, "resolved"))
               + Cardinality(Handled(id, "failed"))
               + Cardinality(WaitingFor(id))

\* C25 as stated: after a getSchema call for a schema id failed, the cache
\* holds no entry for that id and the event is reported as "error"; an event
\* whose schema id is not cached calls getSchema, and once an id is cached no
\* further getSchema call is made for it.
C25_FailedResolutionLeavesNoEntry ==
    [][/\ NoFailureCached'
       /\ \A id \in schemaCache : getSchemaCalls'[id] = getSchemaCalls[id]
       /\ \A h \in handlers :
             GetSchemaCallback(h, FALSE) =>
                 h.schemaIds[h.i] \notin schemaCache']_vars

\* C25 amended: a failed getSchema call adds no entry to the cache, which
\* holds a schema id only after a getSchema call returned its schema (also a
\* call made for another event of the same schema while the failed one was
\* pending); the event whose schema failed to load is reported as "error";
\* an event whose schema id is not cached calls getSchema, and once an id is
\* cached no further getSchema call is made for it.
C25_FailedResolutionNotCached ==
    [][/\ NoFailureCached'
       /\ \A id \in schemaCache : getSchemaCalls'[id] = getSchemaCalls[id]
       /\ \A h \in handlers :
             GetSchemaCallback(h, FALSE) => schemaCache' = schemaCache]_vars

\* the schema of an event failed to load, the next event of the schema made
\* the second getSchema call, which returned it, and a third event was
\* served from the cache
C25_Witness ==
    /\ "a" \in schemaCache
    /\ getSchemaCalls["a"] = 2
    /\ \E j, k, l \in DOMAIN order :
          /\ j < k /\ k < l
          /\ order[j].schemaId = "a" /\ order[j].via = "failed"
          /\ order[j].signal = "error"
          /\ order[k].schemaId = "a" /\ order[k].via = "resolved"
          /\ order[l].schemaId = "a" /\ order[l].via = "cache"
          /\ order[l].signal = "data"

\* C27: the events an emitter emits as "data" are emitted in the order in
\* which the server delivered them: by message, and by position within a
\* message.
C27_DataInDeliveryOrder ==
    \A j, k \in DOMAIN order :
        (/\ j < k
         /\ order[j].em = order[k].em
         /\ order[j].signal = "data"
         /\ order[k].signal = "data")
        => \/ order[j].msg < order[k].msg
           \/ order[j].msg = order[k].msg /\ order[j].i < order[k].i

\* C29: a handler invocation that resumes after the transport signalled "end"
\* on the stream of its emitter emits neither "data" nor "lastevent" on the
\* emitter, writes no request on any stream and attempts no re-request.
C29_SilentAfterEnd ==
    [][\A h \in handlers, ok \in BOOLEAN :
          (/\ GetSchemaCallback(h, ok)
           /\ streams[emitters[h.em].stream].ended
           /\ emitters[h.em].emitted["end"] > 0)
          => /\ emitters'[h.em].emitted["data"] = emitters[h.em].emitted["data"]
             /\ emitters'[h.em].emitted["lastevent"] =
                   emitters[h.em].emitted["lastevent"]
             /\ \A s \in DOMAIN streams : streams'[s].writes = streams[s].writes
             /\ rejections' = rejections]_vars

====
